---- MODULE Spec2Model ----
(***************************************************************************)
(* Model of HaplotypeResolver (src/repeat_graph/haplotype_resolver.cpp):   *)
(* collapseHeterozygousBulges, collapseHeterozygousLoops and the trimming  *)
(* part of findComplexHaplotypes, over a small bidirected repeat graph.    *)
(*                                                                         *)
(* Edges are signed integers: k is an edge, -k its complement; an edge     *)
(* with selfComplement set is its own complement and has no negative twin. *)
(* Nodes are 1..numNodes.  Coverage and length are integers; the float     *)
(* comparisons against 1.5 and /4 are done by cross-multiplication, and a  *)
(* path's meanCoverage is the integer quotient of its length-weighted sum. *)
(***************************************************************************)
EXTENDS Integers, Sequences, FiniteSets, TLC

VARIABLES
    graph,      \* _graph: the repeat graph, a record (see MkGraph)
    lastOp,     \* the pass that produced the current graph ("init" at start)
    lastCount,  \* the integer that pass returned
    order,      \* the ordering in which getUnbranchingPaths lists the paths
    pre,        \* the graph before the last pass
    prevOp,     \* the pass before the last one
    prevCount,  \* what it returned
    pre2,       \* the graph before the pass before the last one
    log,        \* the bubbles / loops the last pass accepted, in visit order
    staged,     \* the ids the last pass staged (toSeparate, toUnroll, toRemove)
    passes,     \* number of passes run so far
    alns,       \* _aligner.getAlignments() (complex haplotype finder)
    trimmed     \* the outcome of the last findComplexHaplotypes trimming step

vars == <<graph, lastOp, lastCount, order, pre, prevOp, prevCount, pre2,
          log, staged, passes, alns, trimmed>>

----------------------------------------------------------------------------
(* Bounds of the model *)

MaxPasses == 2
NumOrders == 4
NumReads == 4

(* Program constants *)

MAX_COV_VAR_NUM == 3
MAX_COV_VAR_DEN == 2
MAX_BUBBLE_LEN == 50
COV_MULT_NUM == 3
COV_MULT_DEN == 2
LOOP_COV_DIV == 4

----------------------------------------------------------------------------
(* Generic helpers *)

Abs(x) == IF x < 0 THEN -x ELSE x

Min2(a, b) == IF a < b THEN a ELSE b

Max2(a, b) == IF a > b THEN a ELSE b

Range(s) == {s[i] : i \in 1..Len(s)}

Last(s) == s[Len(s)]

Reverse(s) == [i \in 1..Len(s) |-> s[Len(s) + 1 - i]]

\* rank of a signed id in the canonical listing 1, -1, 2, -2, ...
Key(e) == 2 * Abs(e) + (IF e < 0 THEN 1 ELSE 0)

RECURSIVE SortedByKey(_)
SortedByKey(S) ==
    IF S = {} THEN <<>>
    ELSE LET m == CHOOSE x \in S : \A y \in S : Key(x) <= Key(y)
         IN <<m>> \o SortedByKey(S \ {m})

\* index of the first occurrence of x in s, 0 when absent
RECURSIVE FirstIndex(_, _, _)
FirstIndex(s, x, i) ==
    IF i > Len(s) THEN 0
    ELSE IF s[i] = x THEN i
    ELSE FirstIndex(s, x, i + 1)

\* vecRemove: erase the first entry equal to elem
vecRemove(list, elem) ==
    LET k == FirstIndex(list, elem, 1)
    IN IF k = 0 THEN list
       ELSE [i \in 1..(Len(list) - 1) |-> IF i < k THEN list[i] ELSE list[i + 1]]

----------------------------------------------------------------------------
(* Graph model *)

\* FastaRecord::Id::rc()
Rc(id) == -id

\* FastaRecord::Id::strand()
Strand(id) == id > 0

\* RepeatGraph::complementEdge
complementEdge(G, e) == IF G.selfComplement[e] THEN e ELSE -e

\* RepeatGraph::addNode: a fresh node with empty adjacency; the new node is
\* G.numNodes of the result
addNode(G) ==
    [G EXCEPT !.numNodes = @ + 1,
              !.inEdges = [n \in 1..(G.numNodes + 1) |->
                              IF n = G.numNodes + 1 THEN <<>> ELSE G.inEdges[n]],
              !.outEdges = [n \in 1..(G.numNodes + 1) |->
                              IF n = G.numNodes + 1 THEN <<>> ELSE G.outEdges[n]]]

\* A strand-symmetric graph from its forward strand.  fwd is a sequence of
\* records [id, from, to, sc, len, cov, alt] over forward nodes 1..m; node n
\* has the complement node 2m+1-n; the twin of edge k is -k, running from the
\* complement of k's right node to the complement of its left node.  An edge
\* with sc set runs from a node to that node's complement and is its own twin.
MkGraph(fwd, m, revAdj) ==
    LET nc(n) == 2 * m + 1 - n
        F == Range(fwd)
        rec(e) == CHOOSE r \in F : r.id = Abs(e)
        E == {r.id : r \in F} \cup {-r.id : r \in {x \in F : ~x.sc}}
        nl == [e \in E |-> IF e > 0 THEN rec(e).from ELSE nc(rec(e).to)]
        nr == [e \in E |-> IF e > 0 THEN rec(e).to ELSE nc(rec(e).from)]
        adj(S) == IF revAdj THEN Reverse(SortedByKey(S)) ELSE SortedByKey(S)
    IN [edges          |-> E,
        numNodes       |-> 2 * m,
        nodeLeft       |-> nl,
        nodeRight      |-> nr,
        inEdges        |-> [n \in 1..(2 * m) |-> adj({e \in E : nr[e] = n})],
        outEdges       |-> [n \in 1..(2 * m) |-> adj({e \in E : nl[e] = n})],
        length         |-> [e \in E |-> rec(e).len],
        meanCoverage   |-> [e \in E |-> rec(e).cov],
        altHaplotype   |-> [e \in E |-> rec(e).alt],
        selfComplement |-> [e \in E |-> rec(e).sc]]

Edge(id, from, to, len, cov) ==
    [id |-> id, from |-> from, to |-> to, sc |-> FALSE,
     len |-> len, cov |-> cov, alt |-> FALSE]

----------------------------------------------------------------------------
(* Unbranching paths (GraphProcessor::getUnbranchingPaths, UnbranchingPath) *)

\* GraphNode::isBifurcation
isBifurcation(G, n) == Len(G.inEdges[n]) # 1 \/ Len(G.outEdges[n]) # 1

\* the maximal unbranching walk that starts with edge e
RECURSIVE Walk(_, _, _)
Walk(G, e, fuel) ==
    LET n == G.nodeRight[e]
    IN IF fuel = 0 \/ isBifurcation(G, n) THEN <<e>>
       ELSE <<e>> \o Walk(G, G.outEdges[n][1], fuel - 1)

RECURSIVE SumLen(_, _, _)
SumLen(G, p, i) ==
    IF i > Len(p) THEN 0 ELSE G.length[p[i]] + SumLen(G, p, i + 1)

RECURSIVE SumCovLen(_, _, _)
SumCovLen(G, p, i) ==
    IF i > Len(p) THEN 0
    ELSE G.meanCoverage[p[i]] * G.length[p[i]] + SumCovLen(G, p, i + 1)

\* the id of a path: the twin pair is named by its smallest edge number, the
\* strand bit (sign) says which of the two twin paths this is
PathId(G, p) ==
    LET k == CHOOSE a \in {Abs(e) : e \in Range(p)} :
                 \A b \in {Abs(e) : e \in Range(p)} : a <= b
    IN IF k \in Range(p) THEN k ELSE -k

\* UnbranchingPath: the snapshot fields (id, path, length, meanCoverage);
\* nodeLeft()/nodeRight() are references into the graph, see below
MkPath(G, p) ==
    [id           |-> PathId(G, p),
     path         |-> p,
     length       |-> SumLen(G, p, 1),
     meanCoverage |-> SumCovLen(G, p, 1) \div SumLen(G, p, 1)]

\* UnbranchingPath::nodeLeft(): path.front()->nodeLeft, read from the live graph
PathNodeLeft(G, P) == G.nodeLeft[P.path[1]]

\* UnbranchingPath::nodeRight(): path.back()->nodeRight, read from the live graph
PathNodeRight(G, P) == G.nodeRight[Last(P.path)]

\* UnbranchingPath::isLooped
isLooped(G, P) == PathNodeLeft(G, P) = PathNodeRight(G, P)

\* the k-th ordering of a list: odd k rotate the list, even k rotate the
\* reversed list
Ordering(s, k) ==
    LET n == Len(s)
        base == IF k % 2 = 1 THEN s ELSE Reverse(s)
        r == ((k - 1) \div 2) % Max2(n, 1)
    IN [i \in 1..n |-> base[((i - 1 + r) % n) + 1]]

\* every maximal unbranching path of G (every edge lies on exactly one), listed
\* in the k-th ordering
getUnbranchingPaths(G, k) ==
    LET starts == {e \in G.edges : isBifurcation(G, G.nodeLeft[e])}
        canon == SortedByKey(starts)
        paths == [i \in 1..Len(canon) |->
                     MkPath(G, Walk(G, canon[i], Cardinality(G.edges)))]
    IN Ordering(paths, k)

----------------------------------------------------------------------------
(* collapseHeterozygousBulges *)

\* lines 26-34: the paths sharing both end nodes with path, as indices into
\* the list, in list order
TwoPaths(G, ps, path) ==
    SelectSeq([i \in 1..Len(ps) |-> i],
              LAMBDA i : /\ PathNodeLeft(G, ps[i]) = PathNodeLeft(G, path)
                         /\ PathNodeRight(G, ps[i]) = PathNodeRight(G, path))

\* lines 46-53: the last path of the list whose right node is n (0 for nullptr)
EntrancePath(G, ps, n) ==
    LET c == {i \in 1..Len(ps) : PathNodeRight(G, ps[i]) = n}
    IN IF c = {} THEN 0 ELSE CHOOSE i \in c : \A j \in c : j <= i

\* lines 46-53: the last path of the list whose left node is n (0 for nullptr)
ExitPath(G, ps, n) ==
    LET c == {i \in 1..Len(ps) : PathNodeLeft(G, ps[i]) = n}
    IN IF c = {} THEN 0 ELSE CHOOSE i \in c : \A j \in c : j <= i

\* lines 38-44: the structure tests on the two candidate branches
BulgeStructureOk(G, p0, p1, toSeparate) ==
    /\ p0.id # Rc(p1.id)
    /\ p0.id \notin toSeparate
    /\ p1.id \notin toSeparate
    /\ Len(G.inEdges[PathNodeLeft(G, p0)]) = 1
    /\ Len(G.outEdges[PathNodeLeft(G, p0)]) = 2
    /\ Len(G.outEdges[PathNodeRight(G, p0)]) = 1
    /\ Len(G.inEdges[PathNodeRight(G, p0)]) = 2

\* lines 55-69: the length and coverage tests
BulgeTestsOk(p0, p1, entrancePath, exitPath) ==
    /\ ~(Max2(p0.length, p1.length) > MAX_BUBBLE_LEN)
    /\ ~(MAX_COV_VAR_DEN * (p0.meanCoverage + p1.meanCoverage) >
            MAX_COV_VAR_NUM * Min2(entrancePath.meanCoverage, exitPath.meanCoverage))
    /\ ~(Max2(p0.length, p1.length) > Max2(entrancePath.length, exitPath.length))

\* OrderBranches without the swap: list order decides
OrderBranchesNoSwap(p0, p1) == <<p0, p1>>

\* lines 71-74: the two branches with the lower coverage first
OrderBranches(p0, p1) ==
    IF p0.meanCoverage > p1.meanCoverage THEN <<p1, p0>> ELSE <<p0, p1>>

\* BulgeCountsAsMasked with "neither flagged" instead of "not both flagged"
BulgeCountsIfNeitherFlagged(G, a, b) ==
    ~G.altHaplotype[a.path[1]] /\ ~G.altHaplotype[b.path[1]]

\* lines 76-77: whether this visit increments numMasked
BulgeCountsAsMasked(G, a, b) ==
    ~G.altHaplotype[a.path[1]] \/ ~G.altHaplotype[b.path[1]]

\* lines 81-85 / 182-186: flag every edge of the path and its complement
MarkAltHaplotype(G, P) ==
    LET es == Range(P.path) \cup {complementEdge(G, e) : e \in Range(P.path)}
    IN [G EXCEPT !.altHaplotype = [e \in G.edges |-> IF e \in es THEN TRUE ELSE @[e]]]

\* FoldEdge with the complement's coverage write left out
FoldEdgeNoTwin(G, edge, cov) ==
    LET G1 == [G EXCEPT !.meanCoverage[edge] = @ + cov]
        G3 == [G1 EXCEPT !.altHaplotype[edge] = FALSE]
    IN [G3 EXCEPT !.altHaplotype[complementEdge(G, edge)] = FALSE]

\* lines 92-98, one iteration: add the alternative's coverage to the edge and
\* to its complement, then clear both flags
FoldEdge(G, edge, cov) ==
    LET G1 == [G EXCEPT !.meanCoverage[edge] = @ + cov]
        G2 == [G1 EXCEPT !.meanCoverage[complementEdge(G, edge)] = @ + cov]
        G3 == [G2 EXCEPT !.altHaplotype[edge] = FALSE]
    IN [G3 EXCEPT !.altHaplotype[complementEdge(G, edge)] = FALSE]

\* lines 92-98: the loop over the retained branch
RECURSIVE FoldCoverage(_, _, _, _)
FoldCoverage(G, P, cov, i) ==
    IF i > Len(P.path) THEN G
    ELSE FoldCoverage(FoldEdge(G, P.path[i], cov), P, cov, i + 1)

\* StageBothStrands without the reverse strand
StageOneStrand(set, id) == set \cup {id}

\* lines 90-91: stage both strands of the alternative
StageBothStrands(set, id) == set \cup {id, Rc(id)}

\* lines 22-100, one iteration of the detection loop.  S is the loop state:
\* the graph, toSeparate, numMasked and the record of accepted bubbles.
BulgeVisit(S, ps, i, removeAlternatives) ==
    LET G == S.graph
        path == ps[i]
        two == TwoPaths(G, ps, path)
    IN IF isLooped(G, path) THEN S
       ELSE IF Len(two) # 2 THEN S
       ELSE LET p0 == ps[two[1]]
                p1 == ps[two[2]]
            IN IF ~BulgeStructureOk(G, p0, p1, S.toSeparate) THEN S
               ELSE LET en == EntrancePath(G, ps, PathNodeLeft(G, p0))
                        ex == ExitPath(G, ps, PathNodeRight(G, p0))
                    IN IF ~BulgeTestsOk(p0, p1, ps[en], ps[ex]) THEN S
                       ELSE LET ab == OrderBranches(p0, p1)
                                a == ab[1]
                                b == ab[2]
                                inc == BulgeCountsAsMasked(G, a, b)
                                Gm == MarkAltHaplotype(MarkAltHaplotype(G, a), b)
                                entry == [alt |-> a, kept |-> b, counted |-> inc,
                                          flagA |-> G.altHaplotype[a.path[1]],
                                          flagB |-> G.altHaplotype[b.path[1]]]
                            IN [graph |-> IF removeAlternatives
                                            THEN FoldCoverage(Gm, b, a.meanCoverage, 1)
                                            ELSE Gm,
                                toSeparate |-> IF removeAlternatives
                                                 THEN StageBothStrands(S.toSeparate, a.id)
                                                 ELSE S.toSeparate,
                                numMasked |-> S.numMasked + (IF inc THEN 1 ELSE 0),
                                log |-> Append(S.log, entry)]

RECURSIVE BulgeScan(_, _, _, _)
BulgeScan(S, ps, i, removeAlternatives) ==
    IF i > Len(ps) THEN S
    ELSE BulgeScan(BulgeVisit(S, ps, i, removeAlternatives), ps, i + 1,
                   removeAlternatives)

\* SeparatePath without the vecRemove on the old right node
SeparatePathKeepsInEdge(G, P) ==
    LET Ga == addNode(addNode(G))
        newLeft == G.numNodes + 1
        newRight == G.numNodes + 2
        front == P.path[1]
        back == Last(P.path)
        G1 == [Ga EXCEPT !.outEdges[PathNodeLeft(Ga, P)] = vecRemove(@, front)]
        G3 == [G1 EXCEPT !.nodeLeft[front] = newLeft]
        G4 == [G3 EXCEPT !.nodeRight[back] = newRight]
        G5 == [G4 EXCEPT !.outEdges[newLeft] = Append(@, front)]
    IN [G5 EXCEPT !.inEdges[newRight] = Append(@, back)]

\* lines 110-117: move the path between two fresh nodes
SeparatePath(G, P) ==
    LET Ga == addNode(addNode(G))
        newLeft == G.numNodes + 1
        newRight == G.numNodes + 2
        front == P.path[1]
        back == Last(P.path)
        G1 == [Ga EXCEPT !.outEdges[PathNodeLeft(Ga, P)] = vecRemove(@, front)]
        G2 == [G1 EXCEPT !.inEdges[PathNodeRight(G1, P)] = vecRemove(@, back)]
        G3 == [G2 EXCEPT !.nodeLeft[front] = newLeft]
        G4 == [G3 EXCEPT !.nodeRight[back] = newRight]
        G5 == [G4 EXCEPT !.outEdges[newLeft] = Append(@, front)]
    IN [G5 EXCEPT !.inEdges[newRight] = Append(@, back)]

\* BulgeCommit that separates nothing
BulgeCommitSkipped(G, ps, toSeparate, i) == G

\* lines 104-119: the commit loop
RECURSIVE BulgeCommit(_, _, _, _)
BulgeCommit(G, ps, toSeparate, i) ==
    IF i > Len(ps) THEN G
    ELSE BulgeCommit(IF ps[i].id \in toSeparate THEN SeparatePath(G, ps[i]) ELSE G,
                     ps, toSeparate, i + 1)

\* lines 125, 131: the returned integer
BulgeReturn(S, removeAlternatives) ==
    IF removeAlternatives THEN Cardinality(S.toSeparate) \div 2 ELSE S.numMasked

\* collapseHeterozygousBulges with the mode switch ignored: always collapses
collapseHeterozygousBulgesIgnoringMode(G, k, removeAlternatives) ==
    LET ps == getUnbranchingPaths(G, k)
        S == BulgeScan([graph |-> G, toSeparate |-> {}, numMasked |-> 0, log |-> <<>>],
                       ps, 1, TRUE)
    IN [graph |-> BulgeCommit(S.graph, ps, S.toSeparate, 1),
        count |-> BulgeReturn(S, removeAlternatives),
        staged |-> [toSeparate |-> S.toSeparate, toUnroll |-> {}, toRemove |-> {}],
        log |-> S.log]

\* the whole call: [graph, count, staged, log]
collapseHeterozygousBulges(G, k, removeAlternatives) ==
    LET ps == getUnbranchingPaths(G, k)
        S == BulgeScan([graph |-> G, toSeparate |-> {}, numMasked |-> 0, log |-> <<>>],
                       ps, 1, removeAlternatives)
    IN [graph |-> IF removeAlternatives
                    THEN BulgeCommit(S.graph, ps, S.toSeparate, 1)
                    ELSE S.graph,
        count |-> BulgeReturn(S, removeAlternatives),
        staged |-> [toSeparate |-> S.toSeparate, toUnroll |-> {}, toRemove |-> {}],
        log |-> S.log]

----------------------------------------------------------------------------
(* collapseHeterozygousLoops *)

\* lines 161-167: the last path of the list, other than the loop, whose right
\* node is n (0 for nullptr)
LoopEntrance(G, ps, loop, n) ==
    LET c == {i \in 1..Len(ps) : PathNodeRight(G, ps[i]) = n /\ ps[i].id # loop.id}
    IN IF c = {} THEN 0 ELSE CHOOSE i \in c : \A j \in c : j <= i

\* lines 161-167: the last path of the list, other than the loop, whose left
\* node is n (0 for nullptr)
LoopExit(G, ps, loop, n) ==
    LET c == {i \in 1..Len(ps) : PathNodeLeft(G, ps[i]) = n /\ ps[i].id # loop.id}
    IN IF c = {} THEN 0 ELSE CHOOSE i \in c : \A j \in c : j <= i

\* lines 151-157: the tests on the loop path alone
LoopStructureOk(G, loop) ==
    /\ Strand(loop.id)
    /\ isLooped(G, loop)
    /\ ~G.selfComplement[loop.path[1]]
    /\ Len(G.inEdges[PathNodeLeft(G, loop)]) = 2
    /\ Len(G.outEdges[PathNodeLeft(G, loop)]) = 2

\* lines 169-179: the tests against entrance and exit
LoopTestsOk(G, loop, entrancePath, exitPath) ==
    /\ ~isLooped(G, entrancePath)
    /\ entrancePath.id # Rc(exitPath.id)
    /\ ~(COV_MULT_DEN * loop.meanCoverage >
            COV_MULT_NUM * Min2(entrancePath.meanCoverage, entrancePath.meanCoverage))
    /\ ~(loop.length > Max2(entrancePath.length, exitPath.length))

\* lines 188-189: remove (TRUE) or unroll (FALSE)
LoopIsRemoved(loop, entrancePath, exitPath) ==
    LOOP_COV_DIV * loop.meanCoverage <
        entrancePath.meanCoverage + exitPath.meanCoverage

\* lines 149-199, one iteration of the detection loop
LoopVisit(S, ps, i) ==
    LET G == S.graph
        loop == ps[i]
    IN IF ~LoopStructureOk(G, loop) THEN S
       ELSE LET node == PathNodeLeft(G, loop)
                en == LoopEntrance(G, ps, loop, node)
                ex == LoopExit(G, ps, loop, node)
            IN IF ~LoopTestsOk(G, loop, ps[en], ps[ex]) THEN S
               ELSE LET rem == LoopIsRemoved(loop, ps[en], ps[ex])
                        entry == [loop |-> loop, entrance |-> ps[en], exit |-> ps[ex],
                                  node |-> node,
                                  counted |-> ~G.altHaplotype[loop.path[1]]]
                    IN [graph |-> MarkAltHaplotype(G, loop),
                        toRemove |-> IF rem THEN StageBothStrands(S.toRemove, loop.id)
                                     ELSE S.toRemove,
                        toUnroll |-> IF rem THEN S.toUnroll
                                     ELSE StageBothStrands(S.toUnroll, loop.id),
                        numMasked |-> S.numMasked +
                                        (IF G.altHaplotype[loop.path[1]] THEN 0 ELSE 1),
                        log |-> Append(S.log, entry)]

RECURSIVE LoopScan(_, _, _)
LoopScan(S, ps, i) ==
    IF i > Len(ps) THEN S ELSE LoopScan(LoopVisit(S, ps, i), ps, i + 1)

\* UnrollLoop that picks the loop's own last edge as prevEdge
UnrollLoopWrongPrev(G, P) ==
    LET Ga == addNode(G)
        newNode == G.numNodes + 1
        node == PathNodeLeft(Ga, P)
        front == P.path[1]
        id == IF Ga.inEdges[node][1] = Last(P.path) THEN 0 ELSE 1
        prevEdge == Ga.inEdges[node][id + 1]
        G1 == [Ga EXCEPT !.outEdges[node] = vecRemove(@, front)]
        G2 == [G1 EXCEPT !.inEdges[node] = vecRemove(@, prevEdge)]
        G3 == [G2 EXCEPT !.nodeLeft[front] = newNode]
        G4 == [G3 EXCEPT !.outEdges[newNode] = Append(@, front)]
        G5 == [G4 EXCEPT !.nodeRight[prevEdge] = newNode]
    IN [G5 EXCEPT !.inEdges[newNode] = Append(@, prevEdge)]

\* lines 209-218: unroll the loop
UnrollLoop(G, P) ==
    LET Ga == addNode(G)
        newNode == G.numNodes + 1
        node == PathNodeLeft(Ga, P)
        front == P.path[1]
        id == IF Ga.inEdges[node][1] = Last(P.path) THEN 1 ELSE 0
        prevEdge == Ga.inEdges[node][id + 1]
        G1 == [Ga EXCEPT !.outEdges[node] = vecRemove(@, front)]
        G2 == [G1 EXCEPT !.inEdges[node] = vecRemove(@, prevEdge)]
        G3 == [G2 EXCEPT !.nodeLeft[front] = newNode]
        G4 == [G3 EXCEPT !.outEdges[newNode] = Append(@, front)]
        G5 == [G4 EXCEPT !.nodeRight[prevEdge] = newNode]
    IN [G5 EXCEPT !.inEdges[newNode] = Append(@, prevEdge)]

\* lines 224-232: move the loop between two fresh nodes
RemoveLoop(G, P) ==
    LET Ga == addNode(addNode(G))
        newLeft == G.numNodes + 1
        newRight == G.numNodes + 2
        front == P.path[1]
        back == Last(P.path)
        G1 == [Ga EXCEPT !.outEdges[PathNodeLeft(Ga, P)] = vecRemove(@, front)]
        G2 == [G1 EXCEPT !.inEdges[PathNodeLeft(G1, P)] = vecRemove(@, back)]
        G3 == [G2 EXCEPT !.nodeLeft[front] = newLeft]
        G4 == [G3 EXCEPT !.inEdges[newRight] = Append(@, back)]
        G5 == [G4 EXCEPT !.nodeRight[back] = newRight]
    IN [G5 EXCEPT !.outEdges[newLeft] = Append(@, front)]

\* lines 203-234: the commit loop
RECURSIVE LoopCommit(_, _, _, _, _)
LoopCommit(G, ps, toUnroll, toRemove, i) ==
    IF i > Len(ps) THEN G
    ELSE LET Gu == IF ps[i].id \in toUnroll THEN UnrollLoop(G, ps[i]) ELSE G
             Gr == IF ps[i].id \in toRemove THEN RemoveLoop(Gu, ps[i]) ELSE Gu
         IN LoopCommit(Gr, ps, toUnroll, toRemove, i + 1)

\* lines 239, 244: the returned integer
LoopReturn(S, removeAlternatives) ==
    IF removeAlternatives
    THEN (Cardinality(S.toRemove) + Cardinality(S.toUnroll)) \div 2
    ELSE S.numMasked

\* the whole call: [graph, count, staged, log]
collapseHeterozygousLoops(G, k, removeAlternatives) ==
    LET ps == getUnbranchingPaths(G, k)
        S == LoopScan([graph |-> G, toRemove |-> {}, toUnroll |-> {},
                       numMasked |-> 0, log |-> <<>>], ps, 1)
    IN [graph |-> IF removeAlternatives
                    THEN LoopCommit(S.graph, ps, S.toUnroll, S.toRemove, 1)
                    ELSE S.graph,
        count |-> LoopReturn(S, removeAlternatives),
        staged |-> [toSeparate |-> {}, toUnroll |-> S.toUnroll,
                    toRemove |-> S.toRemove],
        log |-> S.log]

----------------------------------------------------------------------------
(* Input graphs: strand-symmetric, coherent, twins equal in coverage and flag *)

Flagged(e, f) == [e EXCEPT !.alt = f]

SelfCompl(e) == [e EXCEPT !.sc = TRUE]

\* E -> [A | B] -> X
SimpleBulge(covA, covB, lenA, flagA, flagB) ==
    MkGraph(<<Edge(1, 1, 2, 10, 30), Flagged(Edge(2, 2, 3, lenA, covA), flagA),
              Flagged(Edge(3, 2, 3, 5, covB), flagB), Edge(4, 3, 4, 10, 30)>>,
            4, FALSE)

\* E -> [A | E2 -> [C | D] -> X2] -> X : a bubble nested in a branch
NestedBulge(covA, covC, covD) ==
    MkGraph(<<Edge(1, 1, 2, 10, 40), Edge(2, 2, 5, 5, covA), Edge(3, 2, 3, 3, 20),
              Edge(4, 3, 4, 2, covC), Edge(5, 3, 4, 2, covD), Edge(6, 4, 5, 3, 20),
              Edge(7, 5, 6, 10, 40)>>, 6, FALSE)

\* E -> [A | B] -> M -> [C | D] -> X : two bubbles in a row
ChainedBulges(covA, covM, covC) ==
    MkGraph(<<Edge(1, 1, 2, 10, 30), Edge(2, 2, 3, 5, covA), Edge(3, 2, 3, 5, 20),
              Edge(4, 3, 4, 3, covM), Edge(5, 4, 5, 5, covC), Edge(6, 4, 5, 5, 10),
              Edge(7, 5, 6, 10, 30)>>, 6, FALSE)

\* E -> [A | B1 B2] -> X : a branch of two edges
TwoEdgeBranch(covA, covB1, covB2) ==
    MkGraph(<<Edge(1, 1, 2, 10, 30), Edge(2, 2, 3, 4, covA), Edge(3, 2, 5, 2, covB1),
              Edge(4, 5, 3, 2, covB2), Edge(5, 3, 4, 10, 30)>>, 5, FALSE)

\* E -> [A | B] -> rc(E) : both branches are self-complement edges, so the
\* bubble's right node is the complement of its left node
HairpinBulge(covA, covB) ==
    MkGraph(<<Edge(1, 1, 2, 10, 30), SelfCompl(Edge(2, 2, 3, 5, covA)),
              SelfCompl(Edge(3, 2, 3, 5, covB))>>, 2, FALSE)

\* E -> N -> X with the self-loop L at N
SimpleLoop(covL, lenL, covX, flagL, revAdj) ==
    MkGraph(<<Edge(1, 1, 2, 10, 20), Flagged(Edge(2, 2, 2, lenL, covL), flagL),
              Edge(3, 2, 3, 10, covX)>>, 3, revAdj)

\* E -> N -> X with a loop of two edges L1 L2 at N
TwoEdgeLoop(covL, revAdj) ==
    MkGraph(<<Edge(1, 1, 2, 10, 20), Edge(2, 2, 4, 2, covL), Edge(3, 4, 2, 2, covL),
              Edge(4, 2, 3, 10, 20)>>, 4, revAdj)

\* E -> N1 -> M -> N2 -> X with the self-loops L1 at N1 and L2 at N2
TwoLoops(covL1, covL2, revAdj) ==
    MkGraph(<<Edge(1, 1, 2, 10, 20), Edge(2, 2, 2, 5, covL1), Edge(3, 2, 3, 10, 20),
              Edge(4, 3, 3, 5, covL2), Edge(5, 3, 4, 10, 20)>>, 4, revAdj)

\* E -> N -> X -> rc(N) -> rc(E) with the self-loop L at N; the exit X is a
\* self-complement edge, so it is also the entrance of the reverse-strand loop
LoopBeforeHairpin(covL, revAdj) ==
    MkGraph(<<Edge(1, 1, 2, 10, 20), Edge(2, 2, 2, 5, covL),
              SelfCompl(Edge(3, 2, 3, 10, 20))>>, 2, revAdj)

\* E -> [A | B] -> M -> N -> X with the self-loop L at N
BulgeAndLoop(covA, covL, revAdj) ==
    MkGraph(<<Edge(1, 1, 2, 10, 30), Edge(2, 2, 3, 5, covA), Edge(3, 2, 3, 5, 20),
              Edge(4, 3, 4, 10, 30), Edge(5, 4, 4, 5, covL), Edge(6, 4, 5, 10, 30)>>,
            5, revAdj)

InputGraphs ==
    {SimpleBulge(a, b, l, fa, fb) :
         a \in {10, 20}, b \in {10, 20, 30}, l \in {5, 20, 60}, fa \in BOOLEAN,
         fb \in BOOLEAN}
    \cup {NestedBulge(a, c, d) : a \in {10, 50}, c \in {5, 10}, d \in {5, 10, 30}}
    \cup {ChainedBulges(a, m, c) : a \in {10, 20}, m \in {10, 30}, c \in {5, 10}}
    \cup {TwoEdgeBranch(a, b1, b2) : a \in {10, 20}, b1 \in {10, 20}, b2 \in {10, 20}}
    \cup {HairpinBulge(a, b) : a \in {10, 20}, b \in {10, 20}}
    \cup {SimpleLoop(c, l, x, f, r) :
              c \in {5, 15, 40}, l \in {5, 20}, x \in {20, 60}, f \in BOOLEAN,
              r \in BOOLEAN}
    \cup {TwoEdgeLoop(c, r) : c \in {5, 15}, r \in BOOLEAN}
    \cup {TwoLoops(c1, c2, r) : c1 \in {5, 15}, c2 \in {5, 15}, r \in BOOLEAN}
    \cup {LoopBeforeHairpin(c, r) : c \in {5, 15}, r \in BOOLEAN}
    \cup {BulgeAndLoop(a, c, r) : a \in {10, 20}, c \in {5, 15}, r \in BOOLEAN}

----------------------------------------------------------------------------
(* The passes as actions *)

NoStaged == [toSeparate |-> {}, toUnroll |-> {}, toRemove |-> {}]

NoTrim == [state |-> "none"]

Init ==
    /\ graph \in InputGraphs
    /\ lastOp = "init"
    /\ lastCount = 0
    /\ order \in 1..NumOrders
    /\ pre = graph
    /\ prevOp = "init"
    /\ prevCount = 0
    /\ pre2 = graph
    /\ log = <<>>
    /\ staged = NoStaged
    /\ passes = 0
    /\ alns = <<>>
    /\ trimmed = NoTrim

Record(op, r) ==
    /\ graph' = r.graph
    /\ lastOp' = op
    /\ lastCount' = r.count
    /\ pre' = graph
    /\ prevOp' = lastOp
    /\ prevCount' = lastCount
    /\ pre2' = pre
    /\ log' = r.log
    /\ staged' = r.staged
    /\ passes' = passes + 1
    /\ UNCHANGED <<order, alns, trimmed>>

BulgesMask ==
    /\ passes < MaxPasses
    /\ Record("bulgesMask", collapseHeterozygousBulges(graph, order, FALSE))

BulgesCollapse ==
    /\ passes < MaxPasses
    /\ Record("bulgesCollapse", collapseHeterozygousBulges(graph, order, TRUE))

LoopsMask ==
    /\ passes < MaxPasses
    /\ Record("loopsMask", collapseHeterozygousLoops(graph, order, FALSE))

LoopsCollapse ==
    /\ passes < MaxPasses
    /\ Record("loopsCollapse", collapseHeterozygousLoops(graph, order, TRUE))

Next == BulgesMask \/ BulgesCollapse \/ LoopsMask \/ LoopsCollapse

Spec == Init /\ [][Next]_vars

----------------------------------------------------------------------------
(* findComplexHaplotypes *)

\* a GraphAlignment is a sequence of EdgeAlignment records [edge, curEnd]

\* lines 252-265: alnIndex[edge], the alignments longer than one edge that
\* touch the edge, in the order of the alignment list
AlnIndex(as, edge) ==
    SelectSeq(as, LAMBDA aln : Len(aln) > 1 /\ \E i \in 1..Len(aln) : aln[i].edge = edge)

\* lines 269-276: the edges of the looped unbranching paths
LoopedEdges(G, ps) ==
    UNION {Range(ps[i].path) : i \in {j \in 1..Len(ps) : isLooped(G, ps[j])}}

\* lines 288-300: the suffix of each indexed alignment from the first
\* occurrence of startEdge
OutPaths(as, startEdge) ==
    LET idx == AlnIndex(as, startEdge)
    IN [k \in 1..Len(idx) |->
           SubSeq(idx[k], FirstIndex([i \in 1..Len(idx[k]) |-> idx[k][i].edge],
                                     startEdge, 1), Len(idx[k]))]

\* lines 304-305: the read span the sort compares
Span(a) == Last(a).curEnd - a[1].curEnd

\* lines 302-305: a sort by descending span that keeps ties in input order;
\* the caller supplies every input order, std::sort promising none for ties
RECURSIVE SortBySpan(_)
SortBySpan(ps) ==
    IF Len(ps) = 0 THEN <<>>
    ELSE LET m == CHOOSE i \in 1..Len(ps) :
                      /\ \A j \in 1..Len(ps) : Span(ps[j]) <= Span(ps[i])
                      /\ \A j \in 1..(i - 1) : Span(ps[j]) < Span(ps[i])
         IN <<ps[m]>> \o SortBySpan([j \in 1..(Len(ps) - 1) |->
                                        IF j < m THEN ps[j] ELSE ps[j + 1]])

\* line 314
MinScore(outPaths) == Max2(2, Len(outPaths) \div 10)

\* lines 321-330: the target agrees with the reference on their common prefix
Contained(trgPath, referencePath) ==
    \A i \in 1..Min2(Len(trgPath), Len(referencePath)) :
        trgPath[i].edge = referencePath[i].edge

\* lines 316-342: group the sorted paths by containment
RECURSIVE GroupPaths(_, _, _)
GroupPaths(outPaths, i, pathGroups) ==
    IF i > Len(outPaths) THEN pathGroups
    ELSE LET hit == {g \in 1..Len(pathGroups) :
                        Contained(outPaths[i], pathGroups[g].path)}
         IN IF hit = {}
            THEN GroupPaths(outPaths, i + 1,
                            Append(pathGroups, [path |-> outPaths[i], score |-> 1]))
            ELSE LET g == CHOOSE x \in hit : \A y \in hit : x <= y
                 IN GroupPaths(outPaths, i + 1,
                               [pathGroups EXCEPT ![g].score = @ + 1])

\* lines 343-345: drop the groups below the minimum score
SurvivingGroups(pathGroups, minScore) ==
    SelectSeq(pathGroups, LAMBDA p : ~(p.score < minScore))

\* lines 349-361: edges that occur twice in one group's path
Repeats(pathGroups) ==
    {e \in UNION {{g.path[i].edge : i \in 1..Len(g.path)} : g \in Range(pathGroups)} :
        \E g \in Range(pathGroups) : \E i \in 1..Len(g.path) : \E j \in 1..Len(g.path) :
            i < j /\ g.path[i].edge = e /\ g.path[j].edge = e}

\* lines 365-386: the edges of the reference that are neither looped nor
\* repeats and that lie on every other group's path
ConvergenceEdges(pathGroups, loopedEdges) ==
    {e \in {pathGroups[1].path[i].edge : i \in 1..Len(pathGroups[1].path)} :
        /\ e \notin loopedEdges
        /\ e \notin Repeats(pathGroups)
        /\ \A g \in 2..Len(pathGroups) :
               \E i \in 1..Len(pathGroups[g].path) : pathGroups[g].path[i].edge = e}

\* lines 389-406: bubbleStartId, as a position counted from 1
RECURSIVE BubbleStart(_, _, _)
BubbleStart(pathGroups, convergenceEdges, pos) ==
    IF \A g \in 2..Len(pathGroups) :
           ~(\/ pos + 1 > Len(pathGroups[g].path)
             \/ pathGroups[1].path[pos + 1].edge \notin convergenceEdges
             \/ pathGroups[g].path[pos + 1].edge # pathGroups[1].path[pos + 1].edge)
    THEN BubbleStart(pathGroups, convergenceEdges, pos + 1)
    ELSE pos

\* lines 409-419: bubbleEndId, as a position counted from 1; 0 when not found
BubbleEnd(refPath, convergenceEdges, startPos) ==
    LET c == {i \in (startPos + 1)..Len(refPath) : refPath[i].edge \in convergenceEdges}
    IN IF c = {} THEN 0 ELSE CHOOSE i \in c : \A j \in c : i <= j

\* lines 425-434: the position the scan leaves in groupStart / groupEnd: each
\* match overwrites the one before, and position 1 stays when nothing matches
ScanIndex(path, edge) ==
    LET c == {i \in 1..Len(path) : path[i].edge = edge}
    IN IF c = {} THEN 1 ELSE CHOOSE i \in c : \A j \in c : j <= i

\* lines 423-437: one group's branch.  The iterator range is empty when
\* groupStart = groupEnd + 1 and is not a range at all beyond that: the
\* constructor's behaviour is then undefined, ub names the outcome
TrimGroup(group, startEdge, endEdge, ub) ==
    LET groupStart == ScanIndex(group.path, startEdge)
        groupEnd == ScanIndex(group.path, endEdge)
        defined == groupStart <= groupEnd + 1
    IN [groupStart |-> groupStart,
        groupEnd |-> groupEnd,
        defined |-> defined,
        path |-> IF defined THEN SubSeq(group.path, groupStart, groupEnd)
                 ELSE IF ub = "garbage" THEN group.path
                 ELSE <<>>,
        score |-> group.score]

UbOutcomes == {"empty", "garbage", "abort"}

\* lines 278-437 for one start path: what the trimming step produced
ComplexForStart(G, ps, as, startPath, ub) ==
    LET startEdge == Last(startPath.path)
        outPaths == SortBySpan(OutPaths(as, startEdge))
        pathGroups == SurvivingGroups(GroupPaths(outPaths, 1, <<>>), MinScore(outPaths))
        conv == ConvergenceEdges(pathGroups, LoopedEdges(G, ps))
        startPos == BubbleStart(pathGroups, conv, 1)
        endPos == BubbleEnd(pathGroups[1].path, conv, startPos)
        refPath == pathGroups[1].path
        branches == [g \in 1..Len(pathGroups) |->
                        TrimGroup(pathGroups[g], refPath[startPos].edge,
                                  refPath[endPos].edge, ub)]
    IN IF ~Strand(startPath.id) THEN [state |-> "skipped"]
       ELSE IF Len(G.outEdges[PathNodeRight(G, startPath)]) < 2 THEN [state |-> "skipped"]
       ELSE IF startEdge \in LoopedEdges(G, ps) THEN [state |-> "skipped"]
       ELSE IF Len(outPaths) = 0 THEN [state |-> "skipped"]
       ELSE IF Len(pathGroups) < 2 THEN [state |-> "skipped"]
       ELSE IF endPos = 0 THEN [state |-> "skipped"]
       ELSE IF ub = "abort" /\ \E g \in 1..Len(branches) : ~branches[g].defined
            THEN [state |-> "aborted", groups |-> pathGroups,
                  bubbleStart |-> refPath[startPos].edge,
                  bubbleEnd |-> refPath[endPos].edge, branches |-> branches]
       ELSE [state |-> "trimmed", groups |-> pathGroups,
             bubbleStart |-> refPath[startPos].edge,
             bubbleEnd |-> refPath[endPos].edge, branches |-> branches]

\* the whole call, reduced to what the trimming step of each start path did
findComplexHaplotypes(G, as, ub) ==
    LET ps == getUnbranchingPaths(G, 1)
    IN [i \in 1..Len(ps) |-> ComplexForStart(G, ps, as, ps[i], ub)]

\* a circular graph with one bubble: S -> [A | B] -> C -> D -> S
CircularBulge ==
    MkGraph(<<Edge(1, 4, 1, 10, 30), Edge(2, 1, 2, 5, 10), Edge(3, 1, 2, 6, 20),
              Edge(4, 2, 3, 10, 30), Edge(5, 3, 4, 10, 30)>>, 4, FALSE)

\* an alignment along a walk: curEnd grows by the length of each edge
RECURSIVE WalkEnd(_, _, _)
WalkEnd(G, w, i) == IF i = 0 THEN 0 ELSE G.length[w[i]] + WalkEnd(G, w, i - 1)

AlignmentOf(G, w) == [i \in 1..Len(w) |-> [edge |-> w[i], curEnd |-> WalkEnd(G, w, i)]]

\* read paths over CircularBulge: walks of the graph, on either strand
ReadWalks ==
    << <<1, 2, 4, 5, 1>>, <<1, 3, 4, 5>>, <<1, 2, 4>>, <<1, 3, 4>>,
       <<5, 1, 2, 4, 5, 1, 3>>, <<1, 3, 4, 5, 1, 2>>, <<1, 2>>, <<-4, -2, -1>>, <<1>> >>

\* the alignment lists: NumReads reads, listed by non-decreasing walk number
AlignmentLists ==
    {[i \in 1..NumReads |-> AlignmentOf(CircularBulge, ReadWalks[f[i]])] :
        f \in {g \in [1..NumReads -> 1..Len(ReadWalks)] :
                  \A i \in 1..(NumReads - 1) : g[i] <= g[i + 1]}}

InitComplex ==
    /\ graph = CircularBulge
    /\ alns \in AlignmentLists
    /\ trimmed = NoTrim
    /\ lastOp = "init"
    /\ lastCount = 0
    /\ order = 1
    /\ pre = graph
    /\ prevOp = "init"
    /\ prevCount = 0
    /\ pre2 = graph
    /\ log = <<>>
    /\ staged = NoStaged
    /\ passes = 0

\* findComplexHaplotypes returns 0 and mutates nothing; the alignment list is
\* taken in any order, which gives the sort every order of equal spans
FindComplexHaplotypes ==
    /\ lastOp = "init"
    /\ \E perm \in Permutations(1..NumReads) : \E ub \in UbOutcomes :
           trimmed' = [state |-> "done",
                       starts |-> findComplexHaplotypes(
                                      graph, [i \in 1..NumReads |-> alns[perm[i]]], ub)]
    /\ lastOp' = "findComplexHaplotypes"
    /\ lastCount' = 0
    /\ UNCHANGED <<graph, order, pre, prevOp, prevCount, pre2, log, staged, passes, alns>>

NextComplex == FindComplexHaplotypes

SpecComplex == InitComplex /\ [][NextComplex]_vars

----------------------------------------------------------------------------
(* Properties *)

Edges == graph.edges

Compl(e) == complementEdge(graph, e)

LogSet == Range(log)

\* the edges of a path together with their complements
BothStrands(G, P) == Range(P.path) \cup {complementEdge(G, e) : e \in Range(P.path)}

SameTopology(G, H) ==
    /\ G.numNodes = H.numNodes
    /\ G.nodeLeft = H.nodeLeft
    /\ G.nodeRight = H.nodeRight
    /\ G.inEdges = H.inEdges
    /\ G.outEdges = H.outEdges

Occurrences(list, e) == Cardinality({i \in 1..Len(list) : list[i] = e})

\* C2: every edge agrees with its complement in altHaplotype and meanCoverage,
\* after any sequence of bulge and loop passes in either mode.
TwinAttributesEqual ==
    \A e \in Edges :
        /\ graph.altHaplotype[Compl(e)] = graph.altHaplotype[e]
        /\ graph.meanCoverage[Compl(e)] = graph.meanCoverage[e]

\* C2 witness: a loop collapse after a bulge collapse, both of which acted on
\* edges that have a distinct complement
TwinAttributesWitness ==
    /\ lastOp = "loopsCollapse" /\ lastCount > 0
    /\ prevOp = "bulgesCollapse" /\ prevCount > 0
    /\ \E e \in Edges : Compl(e) # e /\ graph.meanCoverage[e] # pre2.meanCoverage[e]

\* C3: adjacency is coherent: e is in N.outEdges exactly when e's left node is
\* N, in N.inEdges exactly when its right node is N, and each edge occurs once
\* in one outEdges list and once in one inEdges list; no edge is deleted.
AdjacencyCoherent ==
    /\ Edges = pre.edges
    /\ \A e \in Edges :
           /\ graph.nodeLeft[e] \in 1..graph.numNodes
           /\ graph.nodeRight[e] \in 1..graph.numNodes
           /\ \A n \in 1..graph.numNodes :
                  /\ Occurrences(graph.outEdges[n], e) =
                         (IF graph.nodeLeft[e] = n THEN 1 ELSE 0)
                  /\ Occurrences(graph.inEdges[n], e) =
                         (IF graph.nodeRight[e] = n THEN 1 ELSE 0)

\* C3 witness: a bulge collapse that detached a branch onto fresh nodes, after
\* a loop collapse that also allocated nodes
AdjacencyCoherentWitness ==
    /\ lastOp = "bulgesCollapse" /\ lastCount > 0
    /\ prevOp = "loopsCollapse" /\ prevCount > 0
    /\ graph.numNodes > pre.numNodes /\ pre.numNodes > pre2.numNodes
    /\ \E id \in staged.toSeparate :
           id \in Edges /\ graph.nodeLeft[id] > pre.numNodes

\* C6: a pass in mask mode leaves nodes, edge ends, adjacency lists and
\* coverage as they were; altHaplotype can only go from false to true.
MaskModeFrame ==
    lastOp \in {"bulgesMask", "loopsMask"} =>
        /\ SameTopology(graph, pre)
        /\ graph.meanCoverage = pre.meanCoverage
        /\ \A e \in Edges : pre.altHaplotype[e] => graph.altHaplotype[e]

\* C6 witness: both mask passes accepted a structure and flagged it
MaskModeFrameWitness ==
    /\ lastOp = "loopsMask" /\ lastCount > 0
    /\ prevOp = "bulgesMask" /\ prevCount > 0
    /\ graph.altHaplotype # pre.altHaplotype
    /\ pre.altHaplotype # pre2.altHaplotype

\* C8: the graph stays strand-symmetric: e1 is immediately followed by e2
\* exactly when the complement of e2 is immediately followed by that of e1.
StrandSymmetric ==
    \A e1 \in Edges : \A e2 \in Edges :
        (graph.nodeRight[e1] = graph.nodeLeft[e2]) <=>
            (graph.nodeRight[Compl(e2)] = graph.nodeLeft[Compl(e1)])

\* C8 witness: a loop was unrolled on both strands after a bulge was detached
StrandSymmetricWitness ==
    /\ lastOp = "loopsCollapse" /\ staged.toUnroll # {}
    /\ prevOp = "bulgesCollapse" /\ prevCount > 0
    /\ \E r \in LogSet :
           /\ r.loop.id \in staged.toUnroll
           /\ graph.nodeLeft[r.loop.path[1]] > pre.numNodes
           /\ graph.nodeLeft[Compl(Last(r.loop.path))] > pre.numNodes

\* the state of one strand of a loop after the commit: the loop runs from
\* first to last, enLast is the last edge of its entrance, exFirst the first
\* edge of its exit, n the node the loop sat on
LoopBrokenAt(first, last, enLast, exFirst, n, removed) ==
    /\ graph.nodeLeft[first] > pre.numNodes
    /\ graph.nodeLeft[first] # graph.nodeRight[last]
    /\ graph.outEdges[n] = <<exFirst>>
    /\ IF removed
       THEN /\ graph.nodeRight[last] > pre.numNodes
            /\ graph.inEdges[graph.nodeLeft[first]] = <<>>
            /\ graph.outEdges[graph.nodeRight[last]] = <<>>
            /\ graph.inEdges[n] = <<enLast>>
       ELSE /\ graph.inEdges[graph.nodeLeft[first]] = <<enLast>>
            /\ graph.nodeRight[last] = n
            /\ graph.inEdges[n] = <<last>>

\* C9: in collapse mode every accepted loop is staged in exactly one of
\* toRemove (coverage below a quarter of entrance + exit) and toUnroll; a
\* removed loop ends between two fresh nodes and leaves N with the entrance
\* incoming and the exit outgoing, an unrolled loop leaves a fresh node whose
\* only incoming edge is the entrance's last edge and enters N alone; either way
\* the cycle is broken, on both strands, and the count is the number of loops.
LoopCollapsePolicy ==
    lastOp = "loopsCollapse" =>
        /\ staged.toRemove \cap staged.toUnroll = {}
        /\ staged.toRemove \cup staged.toUnroll =
               {r.loop.id : r \in LogSet} \cup {Rc(r.loop.id) : r \in LogSet}
        /\ lastCount = Cardinality({r.loop.id : r \in LogSet})
        /\ \A r \in LogSet :
               LET removed == LOOP_COV_DIV * r.loop.meanCoverage <
                                  r.entrance.meanCoverage + r.exit.meanCoverage
                   first == r.loop.path[1]
                   last == Last(r.loop.path)
                   enLast == Last(r.entrance.path)
                   exFirst == r.exit.path[1]
               IN /\ r.loop.id \in (IF removed THEN staged.toRemove ELSE staged.toUnroll)
                  /\ LoopBrokenAt(first, last, enLast, exFirst, r.node, removed)
                  /\ LoopBrokenAt(Compl(last), Compl(first), Compl(exFirst),
                                  Compl(enLast), pre.nodeLeft[Compl(last)], removed)

\* C9 witness: one pass removed one loop and unrolled another
LoopCollapsePolicyWitness ==
    /\ lastOp = "loopsCollapse"
    /\ staged.toRemove # {}
    /\ staged.toUnroll # {}
    /\ lastCount = 2

IsBulgePass == lastOp \in {"bulgesMask", "bulgesCollapse"}

TwoCollapses == lastOp = "bulgesCollapse" /\ prevOp = "bulgesCollapse"

\* nodes with two or more outgoing edges
BranchNodes(G) == {n \in 1..G.numNodes : Len(G.outEdges[n]) >= 2}

\* C1 as stated: a second bulge collapse returns 0 and changes nothing, for
\* every graph, nested bubbles included.
BulgeCollapseIdempotent ==
    TwoCollapses => lastCount = 0 /\ graph = pre

\* C1 amended: a second bulge collapse returns 0 and changes nothing when the
\* graph given to the first one branches at one bubble only (at most one node
\* with several outgoing edges per strand).
BulgeCollapseIdempotentOneBubble ==
    (TwoCollapses /\ Cardinality(BranchNodes(pre2)) <= 2) =>
        lastCount = 0 /\ graph = pre

\* C1 witness: the first collapse detached a branch of a lone bubble, then a
\* second collapse ran
BulgeCollapseIdempotentWitness ==
    /\ TwoCollapses
    /\ Cardinality(BranchNodes(pre2)) <= 2
    /\ prevCount = 1
    /\ pre.numNodes > pre2.numNodes

RECURSIVE FoldedInto(_, _)
FoldedInto(e, i) ==
    IF i > Len(log) THEN 0
    ELSE (IF e \in BothStrands(pre, log[i].kept) THEN log[i].alt.meanCoverage ELSE 0)
             + FoldedInto(e, i + 1)

\* C4: after a bulge collapse every edge of a retained branch, and its twin,
\* carries its old coverage plus the detached branch's coverage, added once,
\* also for an edge that is its own complement; all other edges keep theirs.
CoverageFoldedOnce ==
    lastOp = "bulgesCollapse" =>
        \A e \in Edges : graph.meanCoverage[e] = pre.meanCoverage[e] + FoldedInto(e, 1)

\* C5 as stated: the counter is incremented only if neither branch was flagged
\* before the visit, and with no flags set each bubble is counted once.
MaskCounterOnlyIfNeitherFlagged ==
    IsBulgePass =>
        /\ \A i \in 1..Len(log) : log[i].counted => (~log[i].flagA /\ ~log[i].flagB)
        /\ (lastOp = "bulgesMask" /\ \A e \in Edges : ~pre.altHaplotype[e]) =>
               lastCount = Cardinality({{Abs(r.alt.id), Abs(r.kept.id)} : r \in LogSet})

\* C5 amended: the counter is incremented exactly when at least one of the two
\* branches' first edges was not flagged before the visit; mask mode returns the
\* counter, and with no flags set each bubble is counted once.
MaskCounterUnlessBothFlagged ==
    IsBulgePass =>
        /\ \A i \in 1..Len(log) : log[i].counted <=> ~(log[i].flagA /\ log[i].flagB)
        /\ lastOp = "bulgesMask" =>
               lastCount = Cardinality({i \in 1..Len(log) : log[i].counted})
        /\ (lastOp = "bulgesMask" /\ \A e \in Edges : ~pre.altHaplotype[e]) =>
               lastCount = Cardinality({{Abs(r.alt.id), Abs(r.kept.id)} : r \in LogSet})

\* C5 witness: a mask pass counted a bubble one of whose branches was flagged
MaskCounterWitness ==
    /\ lastOp = "bulgesMask"
    /\ lastCount = 1
    /\ \E i \in 1..Len(log) : log[i].counted /\ (log[i].flagA # log[i].flagB)

SameOutcome(r) ==
    /\ r.count = lastCount
    /\ r.staged = staged
    /\ r.graph.meanCoverage = graph.meanCoverage
    /\ r.graph.altHaplotype = graph.altHaplotype

\* no path is a branch of two collapsed bubbles, strands identified
NoSharedBranch ==
    \A i \in 1..Len(log) : \A j \in 1..Len(log) :
        i # j => {Abs(log[i].alt.id), Abs(log[i].kept.id)} \cap
                     {Abs(log[j].alt.id), Abs(log[j].kept.id)} = {}

\* C7 as stated: every ordering of the path list gives the same count, staged
\* ids, coverage and flags, also for branches of equal coverage, and no two
\* collapsed bubbles share a path.
BulgeOrderIndependent ==
    lastOp = "bulgesCollapse" =>
        /\ NoSharedBranch
        /\ \A k \in 1..NumOrders :
               SameOutcome(collapseHeterozygousBulges(pre, k, TRUE))

\* C7 amended: every ordering gives the same count, and no two collapsed bubbles
\* share a path; the staged ids, coverage and flags are the same too when the
\* two branches of every collapsed bubble differ in meanCoverage.
BulgeOrderIndependentUnequal ==
    lastOp = "bulgesCollapse" =>
        /\ NoSharedBranch
        /\ \A k \in 1..NumOrders :
               LET r == collapseHeterozygousBulges(pre, k, TRUE)
               IN /\ r.count = lastCount
                  /\ (\A i \in 1..Len(log) :
                          log[i].alt.meanCoverage # log[i].kept.meanCoverage)
                         => SameOutcome(r)

\* C7 witness: two bubbles with branches of different coverage were collapsed
\* under an ordering other than the first
BulgeOrderIndependentWitness ==
    /\ lastOp = "bulgesCollapse"
    /\ lastCount = 2
    /\ order # 1
    /\ \A i \in 1..Len(log) : log[i].alt.meanCoverage # log[i].kept.meanCoverage

\* the start paths whose trimming step ran
TrimmedStarts ==
    IF trimmed.state = "done"
    THEN {trimmed.starts[i] : i \in {j \in 1..Len(trimmed.starts) :
                                        trimmed.starts[j].state \in {"trimmed", "aborted"}}}
    ELSE {}

PathEdges(p) == [i \in 1..Len(p) |-> p[i].edge]

\* C10: every trimmed branch runs from the first occurrence of the bubble start
\* edge to the first occurrence of the bubble end edge of its group: the start
\* index is not beyond the end index, the branch is not empty, begins with the
\* start edge and ends with the end edge, also when a read revisits the start.
TrimmedBranchWellFormed ==
    \A t \in TrimmedStarts : \A g \in 1..Len(t.groups) :
        LET b == t.branches[g]
            edges == PathEdges(t.groups[g].path)
        IN /\ t.state = "trimmed"
           /\ b.groupStart = FirstIndex(edges, t.bubbleStart, 1)
           /\ b.groupEnd = FirstIndex(edges, t.bubbleEnd, 1)
           /\ b.groupStart <= b.groupEnd
           /\ Len(b.path) > 0
           /\ b.path[1].edge = t.bubbleStart
           /\ Last(b.path).edge = t.bubbleEnd

====
